---------------------------- MODULE Spec2Model ----------------------------
(***************************************************************************)
(* A model of the document-conversion gateway (src/src/server.ts and       *)
(* src/src/convert.ts): the fail-fast startup, the upload endpoints, the   *)
(* ZIP batch runner, the URL fetcher with its streaming size cap, the      *)
(* format dispatch cascade, and the word-wrap / pagination of the text     *)
(* adapter.                                                                *)
(*                                                                         *)
(* Spec    : the server process and the life of one request at a time.     *)
(* SpecTxt : the text adapter's layout applied to two bounded inputs.      *)
(* SpecTmp : two requests handled concurrently, step by step at their      *)
(*           awaits, and the temp files they create in the scratch         *)
(*           directory.                                                    *)
(***************************************************************************)
EXTENDS Integers, Sequences, FiniteSets, TLC

VARIABLES
    proc,     \* the process: startup phase, what the checks found, exit code
    req,      \* the request being handled (endpoint, input, position)
    resp,     \* the response produced for it
    calls,    \* the adapter / tool invocations made for it, in order
    dl,       \* downloadUrlToTemp: chunks left, bytes received, temp file
    batch,    \* POST /convert/zip: entries left to convert, output map
    texts,    \* SpecTxt: the two plain-text inputs
    pdfs,     \* SpecTxt: the layout produced for each of them
    tmp       \* SpecTmp: the clock, the scratch directory, the concurrent requests

vars == <<proc, req, resp, calls, dl, batch, texts, pdfs, tmp>>

(***************************************************************************)
(* Bounds of the model.                                                    *)
(***************************************************************************)
\* longest plain-text input (characters) given to the text adapter
MaxLen == 4
\* most entries of an uploaded archive
MaxEntries == 3
\* most body chunks a remote response is delivered in
MaxChunks == 3
\* how far the millisecond clock advances while the concurrent requests of
\* SpecTmp are handled
MaxClock == 1
\* page width and height in points: the code's Letter page (612 x 792,
\* convert.ts:206) scaled down so that a few characters fill a line and a
\* few lines fill a page
PageWidth == 112
PageHeight == 132

(***************************************************************************)
(* Program constants.                                                      *)
(***************************************************************************)
MAX_FILE_BYTES == 50 * 1024 * 1024
margin == 50
fontSize == 12
pageSize == <<PageWidth, PageHeight>>
\* lineHeight = fontSize * 1.3, kept in tenths of a point
lineHeight10 == fontSize * 13
maxWidth == pageSize[1] - margin * 2

(***************************************************************************)
(* The text adapter, txtToPdf_toPath: split, greedy wrap, forced           *)
(* character split, pagination.  A text is a sequence of one-character     *)
(* strings.                                                                *)
(***************************************************************************)
Chars == {"i", "W", " "}
IsSpace(c) == c = " "

RECURSIVE TextsUpTo(_)
TextsUpTo(n) ==
    IF n = 0 THEN {<<>>}
    ELSE LET shorter == TextsUpTo(n - 1)
         IN  shorter \cup {Append(t, c) : t \in {s \in shorter : Len(s) = n - 1}, c \in Chars}

Texts == TextsUpTo(MaxLen)

\* Times-Roman advance widths (AFM units, 1/1000 em) of the model's glyphs
GlyphWidth(c) == CASE c = "i" -> 278 [] c = "W" -> 944 [] OTHER -> 250
\* Times-Roman kerning pairs among the model's glyphs
Kerning(l, r) == IF l = "W" /\ r = "i" THEN -40 ELSE 0

\* font.widthOfTextAtSize(s, size), in 1/1000 pt: the glyphs' advance
\* widths plus the kerning of each adjacent pair, times the size
RECURSIVE GlyphSum(_)
GlyphSum(s) ==
    IF Len(s) = 0 THEN 0
    ELSE GlyphWidth(s[1])
         + (IF Len(s) > 1 THEN Kerning(s[1], s[2]) ELSE 0)
         + GlyphSum(Tail(s))

widthOfTextAtSize(s, size) == GlyphSum(s) * size

\* font.widthOfTextAtSize(s, fontSize) <= maxWidth
Fits(s) == widthOfTextAtSize(s, fontSize) <= maxWidth * 1000

\* text.split(/\s+/): a run of whitespace separates two words; leading or
\* trailing whitespace yields an empty first or last word
RECURSIVE SplitFrom(_, _, _)
SplitFrom(s, words, inRun) ==
    IF Len(s) = 0 THEN words
    ELSE IF IsSpace(s[1])
         THEN SplitFrom(Tail(s), IF inRun THEN words ELSE Append(words, <<>>), TRUE)
         ELSE SplitFrom(Tail(s),
                        [words EXCEPT ![Len(words)] = Append(@, s[1])],
                        FALSE)

SplitWords(text) == SplitFrom(text, << <<>> >>, FALSE)

\* faulty variant: the character that does not fit starts no new chunk
RECURSIVE SplitCharsDrop(_, _)
SplitCharsDrop(w, acc) ==
    IF Len(w) = 0 THEN acc
    ELSE LET t2 == Append(acc.chunk, w[1])
         IN  IF Fits(t2)
             THEN SplitCharsDrop(Tail(w), [acc EXCEPT !.chunk = t2])
             ELSE SplitCharsDrop(Tail(w),
                    [lines |-> IF acc.chunk # <<>> THEN Append(acc.lines, acc.chunk)
                                                   ELSE acc.lines,
                     chunk |-> <<>>])

\* the inner loop over the characters of an over-wide word: acc = the lines
\* pushed so far and the chunk being filled
RECURSIVE SplitChars(_, _)
SplitChars(w, acc) ==
    IF Len(w) = 0 THEN acc
    ELSE LET t2 == Append(acc.chunk, w[1])
         IN  IF Fits(t2)
             THEN SplitChars(Tail(w), [acc EXCEPT !.chunk = t2])
             ELSE SplitChars(Tail(w),
                    [lines |-> IF acc.chunk # <<>> THEN Append(acc.lines, acc.chunk)
                                                   ELSE acc.lines,
                     chunk |-> <<w[1]>>])

\* faulty variant: an over-wide word is kept whole instead of split
WrapWordNoSplit(st, w) ==
    LET trial == IF st.current # <<>> THEN st.current \o <<" ">> \o w ELSE w
    IN  IF Fits(trial)
        THEN [st EXCEPT !.current = trial]
        ELSE [lines |-> IF st.current # <<>> THEN Append(st.lines, st.current)
                                             ELSE st.lines,
              current |-> w]

\* faulty variant: the finished line replaces the lines instead of being
\* pushed onto them
WrapWordAssign(st, w) ==
    LET trial == IF st.current # <<>> THEN st.current \o <<" ">> \o w ELSE w
    IN  IF Fits(trial)
        THEN [st EXCEPT !.current = trial]
        ELSE LET pushed == IF st.current # <<>> THEN <<st.current>> ELSE st.lines
             IN  IF ~Fits(w)
                 THEN LET r == SplitChars(w, [lines |-> pushed, chunk |-> <<>>])
                      IN  [lines |-> r.lines, current |-> r.chunk]
                 ELSE [lines |-> pushed, current |-> w]

\* one iteration of the loop over the words
WrapWord(st, w) ==
    LET trial == IF st.current # <<>> THEN st.current \o <<" ">> \o w ELSE w
    IN  IF Fits(trial)
        THEN [st EXCEPT !.current = trial]
        ELSE LET pushed == IF st.current # <<>> THEN Append(st.lines, st.current)
                                                ELSE st.lines
             IN  IF ~Fits(w)
                 THEN LET r == SplitChars(w, [lines |-> pushed, chunk |-> <<>>])
                      IN  [lines |-> r.lines, current |-> r.chunk]
                 ELSE [lines |-> pushed, current |-> w]

RECURSIVE WrapFrom(_, _)
WrapFrom(words, st) ==
    IF Len(words) = 0 THEN st
    ELSE WrapFrom(Tail(words), WrapWord(st, words[1]))

\* the wrap loop and the final push
WrapLines(text) ==
    LET st == WrapFrom(SplitWords(text), [lines |-> <<>>, current |-> <<>>])
    IN  IF st.current # <<>> THEN Append(st.lines, st.current) ELSE st.lines

\* the drawing loop: y is tracked top-down, in tenths of a point; a page is
\* added when there is no room for one more line
RECURSIVE DrawFrom(_, _, _)
DrawFrom(n, pages, y10) ==
    IF n = 0 THEN pages
    ELSE IF y10 < margin * 10 + lineHeight10
         THEN DrawFrom(n - 1, pages + 1, (pageSize[2] - margin) * 10 - lineHeight10)
         ELSE DrawFrom(n - 1, pages, y10 - lineHeight10)

PageCount(lines) == DrawFrom(Len(lines), 1, (pageSize[2] - margin) * 10)

\* what txtToPdf_toPath lays out for a text
txtLayout(text) ==
    LET ls == WrapLines(text) IN [done |-> TRUE, lines |-> ls, pages |-> PageCount(ls)]

NoLayout == [done |-> FALSE, lines |-> <<>>, pages |-> 0]

(***************************************************************************)
(* File names.  A name is its directory, its stem and its extensions, each *)
(* extension with its dot ("a.TXT.txt" has two).                           *)
(***************************************************************************)
Name(d, s, e) == [dir |-> d, stem |-> s, exts |-> e]
NoName == Name("", "", <<>>)

\* String.prototype.toLowerCase on an extension
toLowerCase(e) ==
    CASE e = ".TXT" -> ".txt"
      [] e = ".HTM" -> ".htm"
      [] e = ".PDF" -> ".pdf"
      [] OTHER -> e

\* path.extname: the last extension; a name that is only ".ext" has none
extname(n) ==
    IF n.exts = <<>> THEN ""
    ELSE IF n.stem = "" /\ Len(n.exts) = 1 THEN ""
    ELSE n.exts[Len(n.exts)]

\* /\.(e1|e2)$/i.test(name): the name ends with one of the extensions,
\* whatever its case
TestExt(n, es) == n.exts # <<>> /\ toLowerCase(n.exts[Len(n.exts)]) \in es

\* name.replace(/\.(e1|e2)$/i, ".pdf")
ReplaceExt(n, es) ==
    IF TestExt(n, es) THEN [n EXCEPT !.exts[Len(n.exts)] = ".pdf"] ELSE n

\* String.prototype.endsWith(ext): case-sensitive
endsWith(n, e) == n.exts # <<>> /\ n.exts[Len(n.exts)] = e

(***************************************************************************)
(* Values: errors, blobs, tool runs, results.                              *)
(***************************************************************************)
NoCode == 0 - 1
NotCaptured == "<not in message>"

\* new HTTPException(status, {message})
HTTPException(status, msg) ==
    [http |-> TRUE, status |-> status, msg |-> msg,
     code |-> NoCode, stdout |-> NotCaptured, stderr |-> NotCaptured]

\* new Error(message): the message with the parts the code interpolates
ToolError(msg, code, stdout, stderr) ==
    [http |-> FALSE, status |-> 0, msg |-> msg,
     code |-> code, stdout |-> stdout, stderr |-> stderr]

NoError == [http |-> FALSE, status |-> 0, msg |-> "",
            code |-> NoCode, stdout |-> NotCaptured, stderr |-> NotCaptured]

\* a piece of file content: what format it is, what made it, from what
Blob(fmt, via, src, size) == [fmt |-> fmt, via |-> via, src |-> src, size |-> size]

\* one invocation of an adapter: the tool or library, how it ended (its exit
\* code; for a library call 0 or 1 as it returned or threw) and, for an
\* external tool, what it wrote to stderr
Call(tool, code, stderr) == [tool |-> tool, code |-> code, stderr |-> stderr]

\* how an external tool run can end
ExitCodes == {0, 1}
ToolRuns == [code : ExitCodes, stdout : {"O"}, stderr : {"", "E"}]
\* what the tools and libraries do for one conversion: the unrtf run, the
\* wkhtmltopdf run, and whether the library call (mammoth, pdf-lib) returns
Envs == [un : ToolRuns, wk : ToolRuns, lib : BOOLEAN]

\* the outcome of a handler or of a part of it
Ok(body, mime, cs) ==
    [ok |-> TRUE, err |-> NoError, body |-> body, mime |-> mime, calls |-> cs]
Throw(err, cs) ==
    [ok |-> FALSE, err |-> err, body |-> <<>>, mime |-> "", calls |-> cs]

(***************************************************************************)
(* Startup: assertStartupDependencies and the fail-fast IIFE.              *)
(***************************************************************************)
\* Bun.spawn([bin, "--version"]): the spawn throws, or the process exits
SpawnOutcomes == [threw : BOOLEAN, exitCode : ExitCodes]

\* a spawn that was never made
NotRun == [ran |-> FALSE, threw |-> FALSE, exitCode |-> 0]
Ran(o) == [ran |-> TRUE, threw |-> o.threw, exitCode |-> o.exitCode]

\* hasWK: the spawn did not throw and the process exited with code 0
hasWK(o) == ~o.threw /\ o.exitCode = 0

\* faulty variant: the exit code of the spawn is not looked at
hasUnrtfMutant(o) == ~o.threw
\* hasUnrtf: the spawn did not throw and the process exited with code 0
hasUnrtf(o) == ~o.threw /\ o.exitCode = 0

\* assertStartupDependencies: whether it throws, and the spawns it made;
\* the unrtf check is made only when the wkhtmltopdf check passed
assertStartupDependencies(wantWK, wantUN, wkRun, unRun) ==
    IF wantWK /\ ~hasWK(wkRun)
    THEN [thrown |-> TRUE, wkRun |-> Ran(wkRun), unRun |-> NotRun]
    ELSE IF wantUN /\ ~hasUnrtf(unRun)
         THEN [thrown |-> TRUE,
               wkRun |-> IF wantWK THEN Ran(wkRun) ELSE NotRun, unRun |-> Ran(unRun)]
         ELSE [thrown |-> FALSE,
               wkRun |-> IF wantWK THEN Ran(wkRun) ELSE NotRun,
               unRun |-> IF wantUN THEN Ran(unRun) ELSE NotRun]

BootProc == [phase |-> "boot", wkRun |-> NotRun, unRun |-> NotRun,
             logged |-> "nothing", exitCode |-> 0, app |-> FALSE]

\* the startup IIFE of server.ts: on a throw, console.error and
\* process.exit(1); otherwise the module goes on to create the app
StartupProc(wkRun, unRun) ==
    LET a == assertStartupDependencies(TRUE, TRUE, wkRun, unRun)
    IN  IF a.thrown
        THEN [phase |-> "exited", wkRun |-> a.wkRun, unRun |-> a.unRun,
              logged |-> "dependency check failed", exitCode |-> 1, app |-> FALSE]
        ELSE [phase |-> "serving", wkRun |-> a.wkRun, unRun |-> a.unRun,
              logged |-> "dependencies ok", exitCode |-> 0, app |-> TRUE]

(***************************************************************************)
(* Limits.                                                                 *)
(***************************************************************************)
NoThrow == [thrown |-> FALSE, err |-> NoError]
Thrown(e) == [thrown |-> TRUE, err |-> e]

\* faulty variant: the ceiling is off by one
enforceFileLimitMutant(file) ==
    IF file.size > MAX_FILE_BYTES + 1
    THEN Thrown(HTTPException(413, "File too large. Max size is 50MB."))
    ELSE NoThrow
enforceFileLimit(file) ==
    IF file.size > MAX_FILE_BYTES
    THEN Thrown(HTTPException(413, "File too large. Max size is 50MB."))
    ELSE NoThrow

\* text.size is the Blob size of the string
enforceStringLimit(text) ==
    IF text.size > MAX_FILE_BYTES
    THEN Thrown(HTTPException(413, "HTML content too large. Max size is 50MB."))
    ELSE NoThrow

(***************************************************************************)
(* Converter adapters.                                                     *)
(***************************************************************************)
\* htmlToPdfWithWK_toPath: run wkhtmltopdf; a non-zero exit throws an Error
\* with the exit code, stdout and stderr in its message
htmlToPdfWithWK_toPath(src, run) ==
    IF run.code # 0
    THEN Throw(ToolError("wkhtmltopdf failed", run.code, run.stdout, run.stderr),
               <<Call("wkhtmltopdf", run.code, run.stderr)>>)
    ELSE Ok(<<Blob("pdf", "wkhtmltopdf", src, 0)>>, "application/pdf",
            <<Call("wkhtmltopdf", run.code, run.stderr)>>)

\* faulty variant: stderr is left out of the message
rtfToHtmlWithUnrtfMutant(src, run) ==
    IF run.code # 0
    THEN Throw(ToolError("unrtf failed", run.code, NotCaptured, NotCaptured),
               <<Call("unrtf", run.code, run.stderr)>>)
    ELSE Ok(<<Blob("html", "unrtf", src, 0)>>, "text/html", <<Call("unrtf", run.code, run.stderr)>>)
\* rtfToHtmlWithUnrtf: run unrtf; a non-zero exit throws an Error with the
\* exit code and stderr in its message; otherwise its stdout is the HTML
rtfToHtmlWithUnrtf(src, run) ==
    IF run.code # 0
    THEN Throw(ToolError("unrtf failed", run.code, NotCaptured, run.stderr),
               <<Call("unrtf", run.code, run.stderr)>>)
    ELSE Ok(<<Blob("html", "unrtf", src, 0)>>, "text/html", <<Call("unrtf", run.code, run.stderr)>>)

\* txtToPdf_toPath as the handlers use it: pdf-lib lays the text out, or a
\* library call throws
txtToPdf_toPath(src, env) ==
    IF env.lib
    THEN Ok(<<Blob("pdf", "pdf-lib", src, 0)>>, "application/pdf", <<Call("pdf-lib", 0, "")>>)
    ELSE Throw(ToolError("pdf-lib error", NoCode, NotCaptured, NotCaptured),
               <<Call("pdf-lib", 1, "")>>)

\* mammoth.convertToHtml({buffer})
mammothConvertToHtml(src, env) ==
    IF env.lib
    THEN Ok(<<Blob("html", "mammoth", src, 0)>>, "text/html", <<Call("mammoth", 0, "")>>)
    ELSE Throw(ToolError("mammoth error", NoCode, NotCaptured, NotCaptured),
               <<Call("mammoth", 1, "")>>)

\* a first step, then htmlToPdfWithWK_toPath on what it produced
ThenWK(first, src, env) ==
    IF ~first.ok THEN first
    ELSE LET p == htmlToPdfWithWK_toPath(src, env.wk)
         IN  [p EXCEPT !.calls = first.calls \o p.calls]

\* the pipelines: unrtf -> wkhtmltopdf, mammoth -> wkhtmltopdf, wkhtmltopdf
RtfPipeline(src, env) == ThenWK(rtfToHtmlWithUnrtf(src, env.un), src, env)
DocxPipeline(src, env) == ThenWK(mammothConvertToHtml(src, env), src, env)
HtmlPipeline(src, env) == htmlToPdfWithWK_toPath(src, env.wk)

(***************************************************************************)
(* The HTTP boundary: streamFile, app.onError.                             *)
(***************************************************************************)
NoResp == [status |-> 0, ok |-> FALSE, mime |-> "", body |-> <<>>, error |-> NoError]

\* streamFile(path, filename, mime): 200 with the file's content as body
streamFile(content, mime) ==
    [status |-> 200, ok |-> TRUE, mime |-> mime, body |-> content, error |-> NoError]

\* app.onError: an HTTPException keeps its status, anything else is a 500;
\* the body is {ok: false, error: message}
onError(err) ==
    [status |-> IF err.http THEN err.status ELSE 500,
     ok |-> FALSE, mime |-> "application/json", body |-> <<>>,
     error |-> IF err.msg = "" THEN [err EXCEPT !.msg = "Internal error"] ELSE err]

\* what the framework answers for a handler's outcome
Respond(r) == IF r.ok THEN streamFile(r.body, r.mime) ELSE onError(r.err)

(***************************************************************************)
(* Request inputs.                                                         *)
(***************************************************************************)
UploadExts == {".txt", ".TXT", ".rtf", ".docx", ".html", ".htm", ".xhtml",
               ".zip", ".pdf", ".exe"}
UploadNames == {Name("", s, e) : s \in {"", "a"},
                                 e \in {<<>>} \cup {<<x>> : x \in UploadExts}}
Sizes == {1, MAX_FILE_BYTES, MAX_FILE_BYTES + 1}
Datas == {"d1", "d2"}

\* a multipart field: absent, a string, or a File
AbsentField == [kind |-> "absent", name |-> NoName, size |-> 0, data |-> ""]
StringFields == [kind : {"string"}, name : {NoName}, size : Sizes, data : {"s1"}]
FileFields == [kind : {"file"}, name : UploadNames, size : Sizes, data : Datas]
Fields == {AbsentField} \cup StringFields \cup FileFields

\* the body of a POST: form data with its 'file' field and its 'html'
\* field, or a body that is not form data (JSON, text, none) and so has no
\* field
NotFormData == [body |-> "other", file |-> AbsentField, html |-> AbsentField]
Forms == [body : {"form-data"}, file : Fields, html : {AbsentField} \cup StringFields]
            \cup {NotFormData}
NoForm == [body |-> "", file |-> AbsentField, html |-> AbsentField]

\* c.req.formData(): Request.formData() rejects with a TypeError when the
\* body is not form data; the handlers do not catch it
formData(form) ==
    IF form.body # "form-data"
    THEN Thrown(ToolError("Can't decode form data from body", NoCode, NotCaptured, NotCaptured))
    ELSE NoThrow

\* readFormFile(c, "file"): read the form, then 400 unless the field is a
\* File
readFormFile(form) ==
    IF formData(form).thrown THEN formData(form)
    ELSE IF form.file.kind # "file"
    THEN Thrown(HTTPException(400, "Expected multipart/form-data with a 'file' file field."))
    ELSE NoThrow

\* file.name || "document.ext"
NameOr(file, dflt) == IF file.name = NoName THEN dflt ELSE file.name

(***************************************************************************)
(* The upload endpoints.                                                   *)
(***************************************************************************)
\* what the file endpoints share before they convert: read the file field,
\* enforce the limit, test the name's extension
UploadValidate(form, dflt, exts, msg) ==
    LET rd == readFormFile(form)
        lim == enforceFileLimit(form.file)
    IN  IF rd.thrown THEN rd
        ELSE IF lim.thrown THEN lim
        ELSE IF ~TestExt(NameOr(form.file, dflt), exts)
             THEN Thrown(HTTPException(400, msg))
        ELSE NoThrow

\* POST /api/convert/txt
ConvertTxt(form, env) ==
    LET v == UploadValidate(form, Name("", "document", <<".txt">>), {".txt"},
                            "Please upload a .txt file.")
    IN  IF v.thrown THEN Throw(v.err, <<>>) ELSE txtToPdf_toPath(form.file.data, env)

\* POST /api/convert/rtf
ConvertRtf(form, env) ==
    LET v == UploadValidate(form, Name("", "document", <<".rtf">>), {".rtf"},
                            "Please upload a .rtf file.")
    IN  IF v.thrown THEN Throw(v.err, <<>>) ELSE RtfPipeline(form.file.data, env)

\* POST /api/convert/docx
ConvertDocx(form, env) ==
    LET v == UploadValidate(form, Name("", "document", <<".docx">>), {".docx"},
                            "Please upload a .docx file.")
    IN  IF v.thrown THEN Throw(v.err, <<>>) ELSE DocxPipeline(form.file.data, env)

\* POST /api/convert/html: a file field that is a File, else an 'html'
\* string field, else 400.  normalizeHtmlWrapper changes only the text that
\* is handed to wkhtmltopdf, which is identified here by where it came from
ConvertHtml(form, env) ==
    IF formData(form).thrown THEN Throw(formData(form).err, <<>>)
    ELSE IF form.file.kind = "file"
    THEN LET lim == enforceFileLimit(form.file)
         IN  IF lim.thrown THEN Throw(lim.err, <<>>)
             ELSE IF ~TestExt(NameOr(form.file, Name("", "document", <<".html">>)),
                              {".html", ".htm", ".xhtml"})
                  THEN Throw(HTTPException(400,
                         "Please upload a .html/.htm file or provide an html field."), <<>>)
             ELSE HtmlPipeline(form.file.data, env)
    ELSE IF form.html.kind = "string"
    THEN LET lim == enforceStringLimit(form.html)
         IN  IF lim.thrown THEN Throw(lim.err, <<>>)
             ELSE HtmlPipeline(form.html.data, env)
    ELSE Throw(HTTPException(400, "Provide either file=*.html or a text field html."), <<>>)

(***************************************************************************)
(* POST /convert/zip: the batch runner.                                    *)
(***************************************************************************)
\* the entries an archive can hold: a path and its bytes
EntryUniverse ==
    { [path |-> Name("", "a", <<".txt">>),   data |-> "e1"],
      [path |-> Name("", "a", <<".docx">>),  data |-> "e2"],
      [path |-> Name("d/", "b", <<".rtf">>), data |-> "e3"],
      [path |-> Name("", "c", <<".HTM">>),   data |-> "e4"],
      [path |-> Name("", "x", <<".exe">>),   data |-> "e5"],
      [path |-> Name("d/", "", <<".txt">>),  data |-> "e6"] }

RECURSIVE ArchivesUpTo(_)
ArchivesUpTo(n) ==
    IF n = 0 THEN {<<>>}
    ELSE LET shorter == ArchivesUpTo(n - 1)
         IN  shorter \cup
             {Append(a, e) : a \in {s \in shorter : Len(s) = n - 1},
                             e \in EntryUniverse}

\* unzipToMap yields a Map: the paths of an archive are distinct
Archives ==
    {a \in ArchivesUpTo(MaxEntries) :
        \A i, j \in 1..Len(a) : i # j => a[i].path # a[j].path}

\* Map.prototype.set: one value per key, the last one set
MapSet(m, k, v) == {e \in m : e.path # k} \cup {[path |-> k, pdf |-> v]}

\* the body of the loop over the entries, for one entry: the extension
\* chooses the pipeline, any other extension is skipped
ConvertEntry(entry, env) ==
    LET ext == toLowerCase(extname(entry.path))
    IN  CASE ext = ".txt"  -> txtToPdf_toPath(entry.data, env)
          [] ext = ".docx" -> DocxPipeline(entry.data, env)
          [] ext = ".rtf"  -> RtfPipeline(entry.data, env)
          [] ext \in {".html", ".htm"} -> HtmlPipeline(entry.data, env)
          [] OTHER -> Ok(<<>>, "skipped", <<>>)

\* the path an entry's PDF is stored under: path.replace(/\.ext$/i, ".pdf")
OutPath(path) == ReplaceExt(path, {toLowerCase(extname(path))})

\* zipFromMap_toPath and streamFile: the archive of the collected PDFs
ZipResponse(out) ==
    streamFile(<<Blob("zip", "fflate", "bundle", Cardinality(out))>>, "application/zip")

NoBatch == [todo |-> <<>>, input |-> <<>>, out |-> {}]

\* the validation of POST /convert/zip, before the archive is decoded
ZipValidate(form) ==
    UploadValidate(form, Name("", "archive", <<".zip">>), {".zip"},
                   "Please upload a .zip file.")

(***************************************************************************)
(* POST /convert/url: the URL fetcher and the dispatch cascade.            *)
(***************************************************************************)
\* the request: its content type, and the url it carries (if any)
Schemes == {"http", "HTTPS", "ftp"}
UrlNames == {NoName} \cup
            {Name("", "a", e) : e \in {<<>>, <<".pdf">>, <<".txt">>, <<".html">>,
                                       <<".zip">>, <<".exe">>}}
NoUrl == [present |-> FALSE, scheme |-> "", path |-> NoName]
Urls == [present : {TRUE}, scheme : Schemes, path : UrlNames]
UrlRequests == [ctype : {"application/json", "multipart/form-data", "text/plain"},
                url : {NoUrl} \cup Urls]

\* the remote response: status, Content-Type ("" when absent), the filename
\* of Content-Disposition (NoName when absent), whether it has a body
ContentTypes == {"", "application/pdf", "text/plain", "Text/HTML; charset=utf-8",
                 "application/zip", "application/rtf",
                 "application/vnd.openxmlformats-officedocument.wordprocessingml.document",
                 "image/png"}
DispositionNames == {NoName, Name("", "r", <<".rtf">>), Name("", "n", <<>>)}
Remotes == [status : {200, 404}, ct : ContentTypes, cd : DispositionNames,
            hasBody : BOOLEAN]
NoRemote == [status |-> 0, ct |-> "", cd |-> NoName, hasBody |-> FALSE]
ChunkSizes == {1, MAX_FILE_BYTES}

\* getUrlFromRequest: the url of a JSON body or of a multipart form, else 400
getUrlFromRequest(r) ==
    IF r.ctype \in {"application/json", "multipart/form-data"} /\ r.url.present
    THEN NoThrow
    ELSE Thrown(HTTPException(400, "Provide a URL via JSON or form-data field url."))

\* /^https?:\/\//i.test(urlStr)
IsHttpUrl(u) == u.scheme \in {"http", "https", "HTTP", "HTTPS"}

\* ct.split(";")[0].trim().toLowerCase()
MimeOf(ct) == IF ct = "Text/HTML; charset=utf-8" THEN "text/html" ELSE ct

\* guessExtFromContentType: "" stands for null
guessExtFromContentType(ct) ==
    LET t == MimeOf(ct)
    IN  CASE t = "application/pdf" -> ".pdf"
          [] t = "application/vnd.openxmlformats-officedocument.wordprocessingml.document"
               -> ".docx"
          [] t = "text/plain" -> ".txt"
          [] t = "text/html" -> ".html"
          [] t = "application/rtf" -> ".rtf"
          [] t \in {"application/zip", "application/x-zip-compressed"} -> ".zip"
          [] OTHER -> ""

\* extFromUrlOrDisposition: the extension of the Content-Disposition
\* filename if it has one, else that of the URL path; "" stands for null
extFromUrlOrDisposition(u, cd) ==
    IF cd # NoName /\ extname(cd) # ""
    THEN toLowerCase(extname(cd))
    ELSE toLowerCase(extname(u.path))

\* the filename downloadUrlToTemp resolves
ResolveFilename(u, remote) ==
    LET extByCT == guessExtFromContentType(remote.ct)
        extByURL == extFromUrlOrDisposition(u, remote.cd)
        ext == toLowerCase(IF extByURL # "" THEN extByURL ELSE extByCT)
        baseName == IF remote.cd # NoName THEN remote.cd
                    ELSE IF u.path # NoName THEN u.path
                    ELSE Name("", "download", <<>>)
    IN  IF ext # ""
        THEN IF endsWith(baseName, ext) THEN baseName
             ELSE [baseName EXCEPT !.exts = Append(@, ext)]
        ELSE baseName

\* the state of a download: where it stands, what the reader delivered,
\* what was written to the temp file
NoDownload ==
    [fetched |-> FALSE, opened |-> FALSE, reads |-> 0, received |-> 0,
     written |-> <<>>, cancelled |-> FALSE, ended |-> FALSE,
     filename |-> NoName, contentType |-> "", route |-> ""]

\* the start of downloadUrlToTemp: fetch, resolve the name, open the writer
\* and the reader
DownloadStart(u, remote) ==
    [NoDownload EXCEPT !.fetched = TRUE,
                       !.opened = remote.status = 200,
                       !.filename = IF remote.status = 200
                                    THEN ResolveFilename(u, remote) ELSE NoName,
                       !.contentType = IF remote.status = 200 THEN remote.ct ELSE ""]

\* faulty variant: the chunk is written before the count is checked
DownloadReadMutant(d, size) ==
    LET got == d.received + size
    IN  [d EXCEPT !.reads = @ + 1, !.received = got,
                  !.written = Append(@, Blob("raw", "fetch", "remote", size)),
                  !.cancelled = got > MAX_FILE_BYTES,
                  !.ended = got > MAX_FILE_BYTES]
\* one iteration of the read loop that delivers a chunk: count it; over the
\* ceiling, cancel the reader and end the writer (the handler then throws
\* 413), else write the chunk
DownloadRead(d, size) ==
    LET got == d.received + size
    IN  IF got > MAX_FILE_BYTES
        THEN [d EXCEPT !.reads = @ + 1, !.received = got,
                       !.cancelled = TRUE, !.ended = TRUE]
        ELSE [d EXCEPT !.reads = @ + 1, !.received = got,
                       !.written = Append(@, Blob("raw", "fetch", "remote", size))]

\* faulty variant: every extension is tested before any Content-Type
SelectPipelineExtFirst(ext, ct) ==
    LET g == IF ct # "" THEN guessExtFromContentType(ct) ELSE ""
    IN  IF ext = ".pdf" THEN "pdf"
        ELSE IF ext = ".txt" THEN "txt"
        ELSE IF ext = ".docx" THEN "docx"
        ELSE IF ext = ".rtf" THEN "rtf"
        ELSE IF ext \in {".html", ".htm"} THEN "html"
        ELSE IF g = ".pdf" THEN "pdf"
        ELSE IF g = ".txt" THEN "txt"
        ELSE IF g = ".docx" THEN "docx"
        ELSE IF g = ".rtf" THEN "rtf"
        ELSE IF g = ".html" THEN "html"
        ELSE "unsupported"
\* the cascade of POST /convert/url: each branch takes the file by its
\* extension or by its Content-Type, in the order pdf, txt, docx, rtf, html;
\* the zip branch is commented out, so a zip falls through to the 415
SelectPipeline(ext, ct) ==
    LET g == IF ct # "" THEN guessExtFromContentType(ct) ELSE ""
    IN  IF ext = ".pdf" \/ g = ".pdf" THEN "pdf"
        ELSE IF ext = ".txt" \/ g = ".txt" THEN "txt"
        ELSE IF ext = ".docx" \/ g = ".docx" THEN "docx"
        ELSE IF ext = ".rtf" \/ g = ".rtf" THEN "rtf"
        ELSE IF ext \in {".html", ".htm"} \/ g = ".html" THEN "html"
        ELSE "unsupported"

\* the extension the handler dispatches on
DispatchExt(d) == toLowerCase(extname(d.filename))

\* what the handler does with a finished download
UrlDispatch(d, env) ==
    LET route == SelectPipeline(DispatchExt(d), d.contentType)
    IN  CASE route = "pdf"  -> Ok(d.written, "application/pdf", <<>>)
          [] route = "txt"  -> txtToPdf_toPath("download", env)
          [] route = "docx" -> DocxPipeline("download", env)
          [] route = "rtf"  -> RtfPipeline("download", env)
          [] route = "html" -> HtmlPipeline("download", env)
          [] OTHER -> Throw(HTTPException(415,
                        "Unsupported remote type. Allowed: pdf, docx, txt, rtf, html, zip."),
                        <<>>)

(***************************************************************************)
(* Temp files.  Every adapter and the URL fetcher name their files         *)
(* TEMP_DIR/<Date.now()>-<Math.random() in base 36>-<name>; nothing in the *)
(* code removes a file.                                                    *)
(***************************************************************************)
\* the requests handled concurrently
Clients == {"A", "B"}
\* what Math.random().toString(36).slice(2) can yield
Randoms == {"r1", "r2"}

\* join(TEMP_DIR, `${Date.now()}-${Math.random().toString(36).slice(2)}-${name}`)
TmpPath(ts, rnd, name) == [ts |-> ts, rnd |-> rnd, name |-> name]
NoPath == TmpPath(0, "", NoName)

\* a file of the scratch directory: its path, the request whose step wrote
\* it, its format, and the chunks a writer put into it
TmpFile(path, by, fmt, chunks) ==
    [path |-> path, by |-> by, fmt |-> fmt, chunks |-> chunks]
NoFile == TmpFile(NoPath, "", "", <<>>)

Exists(files, path) == \E f \in files : f.path = path
FileAt(files, path) ==
    IF Exists(files, path) THEN CHOOSE f \in files : f.path = path ELSE NoFile

\* Bun.write(path, data): the file is created, or replaced if it is there
BunWrite(files, path, by, fmt) ==
    {f \in files : f.path # path} \cup {TmpFile(path, by, fmt, <<>>)}

\* w.write(value) on the writer of Bun.file(path): the chunk goes to the end
\* of the file the request is writing
WriterWrite(files, path, by, size) ==
    LET f == FileAt(files, path)
        sofar == IF f.by = by THEN f.chunks ELSE <<>>
    IN  {g \in files : g.path # path}
            \cup {TmpFile(path, by, "raw", Append(sofar, Blob("raw", "fetch", "remote", size)))}

\* w.end(): what was written is flushed; when nothing was written the
\* writer may or may not have created an empty file
WriterEnd(files, path, by, creates) ==
    IF Exists(files, path) \/ ~creates THEN files
    ELSE files \cup {TmpFile(path, by, "raw", <<>>)}

\* faulty variant: the partial file is removed when the download is aborted
AbortDownloadUnlink(files, path, by, creates) == {f \in files : f.path # path}
\* the abort of the read loop: reader.cancel(), w.end(), throw; the file
\* stays where it is
AbortDownload(files, path, by, creates) == WriterEnd(files, path, by, creates)

\* a request of SpecTmp: its endpoint, where it stands, the temp paths it
\* generated, its download, its response, and the requests whose files it
\* read
IdleJob == [endpoint |-> "", pc |-> "idle", made |-> <<>>, dl |-> NoDownload,
            status |-> 0, body |-> NoFile, readBy |-> {}]

NoTmp == [now |-> 0, files |-> {}, created |-> {}, jobs |-> [c \in Clients |-> IdleJob]]

\* the values a later Date.now() of the same synchronous block can have
Later(now) == {now} \cup (IF now < MaxClock THEN {now + 1} ELSE {})

\* the remote PDF the url requests of SpecTmp fetch
PdfUrl == [present |-> TRUE, scheme |-> "http", path |-> Name("", "a", <<".pdf">>)]
PdfRemote == [status |-> 200, ct |-> "application/pdf", cd |-> NoName, hasBody |-> TRUE]

(***************************************************************************)
(* The state machine of the server.                                        *)
(***************************************************************************)
IdleReq == [endpoint |-> "", pc |-> "idle", form |-> NoForm,
            urlreq |-> [ctype |-> "", url |-> NoUrl], remote |-> NoRemote]

\* a request of the given endpoint that has been answered
Answered(endpoint, form) ==
    [IdleReq EXCEPT !.endpoint = endpoint, !.pc = "done", !.form = form]

FileForms == {f \in Forms : f.html = AbsentField}

Init ==
    /\ proc = BootProc
    /\ req = IdleReq
    /\ resp = NoResp
    /\ calls = <<>>
    /\ dl = NoDownload
    /\ batch = NoBatch
    /\ texts = << <<>>, <<>> >>
    /\ pdfs = <<NoLayout, NoLayout>>
    /\ tmp = NoTmp

\* the module body of server.ts up to the creation of the app
Startup ==
    /\ proc.phase = "boot"
    /\ \E wkRun \in SpawnOutcomes, unRun \in SpawnOutcomes :
           proc' = StartupProc(wkRun, unRun)
    /\ UNCHANGED <<req, resp, calls, dl, batch, texts, pdfs, tmp>>

\* the app routes a request only once it exists, and this model follows
\* one request at a time
Accepting == proc.phase = "serving" /\ proc.app /\ req.pc = "idle"

\* GET /health
GetHealth ==
    /\ Accepting
    /\ \E wkRun \in SpawnOutcomes, unRun \in SpawnOutcomes :
           resp' = [NoResp EXCEPT !.status = 200, !.mime = "application/json",
                                  !.ok = hasWK(wkRun) /\ hasUnrtf(unRun)]
    /\ req' = Answered("/health", NoForm)
    /\ UNCHANGED <<proc, calls, dl, batch, texts, pdfs, tmp>>

PostConvertTxt ==
    /\ Accepting
    /\ \E form \in FileForms, env \in Envs :
           LET r == ConvertTxt(form, env)
           IN  /\ req' = Answered("/api/convert/txt", form)
               /\ resp' = Respond(r)
               /\ calls' = r.calls
    /\ UNCHANGED <<proc, dl, batch, texts, pdfs, tmp>>

PostConvertRtf ==
    /\ Accepting
    /\ \E form \in FileForms, env \in Envs :
           LET r == ConvertRtf(form, env)
           IN  /\ req' = Answered("/api/convert/rtf", form)
               /\ resp' = Respond(r)
               /\ calls' = r.calls
    /\ UNCHANGED <<proc, dl, batch, texts, pdfs, tmp>>

PostConvertDocx ==
    /\ Accepting
    /\ \E form \in FileForms, env \in Envs :
           LET r == ConvertDocx(form, env)
           IN  /\ req' = Answered("/api/convert/docx", form)
               /\ resp' = Respond(r)
               /\ calls' = r.calls
    /\ UNCHANGED <<proc, dl, batch, texts, pdfs, tmp>>

PostConvertHtml ==
    /\ Accepting
    /\ \E form \in Forms, env \in Envs :
           LET r == ConvertHtml(form, env)
           IN  /\ req' = Answered("/api/convert/html", form)
               /\ resp' = Respond(r)
               /\ calls' = r.calls
    /\ UNCHANGED <<proc, dl, batch, texts, pdfs, tmp>>

\* POST /convert/zip up to the loop: validate, decode the archive; an
\* archive without entries is zipped and streamed at once
PostConvertZip ==
    /\ Accepting
    /\ \E form \in FileForms :
         LET v == ZipValidate(form)
         IN  \/ /\ v.thrown
                /\ req' = Answered("/convert/zip", form)
                /\ resp' = onError(v.err)
                /\ calls' = <<>>
                /\ batch' = batch
             \/ /\ ~v.thrown
                /\ resp' = onError(ToolError("invalid zip data", NoCode, NotCaptured, NotCaptured))
                /\ req' = Answered("/convert/zip", form)
                /\ calls' = <<Call("unzip", 1, "")>>
                /\ batch' = batch
             \/ /\ ~v.thrown
                /\ \E archive \in Archives :
                     /\ batch' = [todo |-> archive, input |-> archive, out |-> {}]
                     /\ IF archive = <<>>
                        THEN /\ req' = Answered("/convert/zip", form)
                             /\ resp' = ZipResponse({})
                             /\ calls' = <<Call("unzip", 0, ""), Call("zip", 0, "")>>
                        ELSE /\ req' = [Answered("/convert/zip", form) EXCEPT !.pc = "batch"]
                             /\ resp' = NoResp
                             /\ calls' = <<Call("unzip", 0, "")>>
    /\ UNCHANGED <<proc, dl, texts, pdfs, tmp>>

\* faulty variant: an entry whose conversion throws is skipped and the loop
\* goes on
ZipEntrySkipFailed ==
    /\ proc.phase = "serving"
    /\ req.pc = "batch"
    /\ \E env \in Envs :
         LET entry == Head(batch.todo)
             r == ConvertEntry(entry, env)
             out == IF r.ok /\ r.body # <<>>
                    THEN MapSet(batch.out, OutPath(entry.path), r.body[1])
                    ELSE batch.out
             rest == Tail(batch.todo)
         IN  /\ batch' = [batch EXCEPT !.todo = rest, !.out = out]
             /\ IF rest = <<>>
                THEN /\ resp' = ZipResponse(out)
                     /\ calls' = calls \o r.calls \o <<Call("zip", 0, "")>>
                     /\ req' = [req EXCEPT !.pc = "done"]
                ELSE /\ resp' = NoResp
                     /\ calls' = calls \o r.calls
                     /\ req' = req
    /\ UNCHANGED <<proc, dl, texts, pdfs, tmp>>

\* one iteration of the loop over the entries; a conversion that throws
\* ends the request, and after the last entry the output is zipped and
\* streamed
ZipEntry ==
    /\ proc.phase = "serving"
    /\ req.pc = "batch"
    /\ \E env \in Envs :
         LET entry == Head(batch.todo)
             r == ConvertEntry(entry, env)
             out == IF r.ok /\ r.body # <<>>
                    THEN MapSet(batch.out, OutPath(entry.path), r.body[1])
                    ELSE batch.out
             rest == Tail(batch.todo)
         IN  \/ /\ ~r.ok
                /\ resp' = onError(r.err)
                /\ calls' = calls \o r.calls
                /\ req' = [req EXCEPT !.pc = "done"]
                /\ batch' = batch
             \/ /\ r.ok
                /\ batch' = [batch EXCEPT !.todo = rest, !.out = out]
                /\ IF rest = <<>>
                   THEN /\ resp' = ZipResponse(out)
                        /\ calls' = calls \o r.calls \o <<Call("zip", 0, "")>>
                        /\ req' = [req EXCEPT !.pc = "done"]
                   ELSE /\ resp' = NoResp
                        /\ calls' = calls \o r.calls
                        /\ req' = req
    /\ UNCHANGED <<proc, dl, texts, pdfs, tmp>>

\* POST /convert/url up to the read loop: the url of the request, the
\* scheme test, the fetch and its status, the reader
PostConvertUrl ==
    /\ Accepting
    /\ \E r \in UrlRequests, remote \in Remotes :
         LET g == getUrlFromRequest(r)
             asked == [IdleReq EXCEPT !.endpoint = "/convert/url", !.pc = "done",
                                      !.urlreq = r]
         IN  \/ /\ g.thrown
                /\ req' = asked
                /\ resp' = onError(g.err)
                /\ dl' = dl
             \/ /\ ~g.thrown /\ ~IsHttpUrl(r.url)
                /\ req' = asked
                /\ resp' = onError(HTTPException(400, "Only http(s) URLs are supported."))
                /\ dl' = dl
             \/ /\ ~g.thrown /\ IsHttpUrl(r.url) /\ remote.status # 200
                /\ req' = [asked EXCEPT !.remote = remote]
                /\ resp' = onError(HTTPException(502, "Failed to fetch URL."))
                /\ dl' = DownloadStart(r.url, remote)
             \/ /\ ~g.thrown /\ IsHttpUrl(r.url) /\ remote.status = 200 /\ ~remote.hasBody
                /\ req' = [asked EXCEPT !.remote = remote]
                /\ resp' = onError(HTTPException(502, "No response body from URL."))
                /\ dl' = DownloadStart(r.url, remote)
             \/ /\ ~g.thrown /\ IsHttpUrl(r.url) /\ remote.status = 200 /\ remote.hasBody
                /\ req' = [asked EXCEPT !.remote = remote, !.pc = "download"]
                /\ resp' = NoResp
                /\ dl' = DownloadStart(r.url, remote)
    /\ calls' = <<>>
    /\ UNCHANGED <<proc, batch, texts, pdfs, tmp>>

\* reader.read() delivers a chunk
UrlReadChunk ==
    /\ proc.phase = "serving"
    /\ req.pc = "download"
    /\ dl.reads < MaxChunks
    /\ \E size \in ChunkSizes :
         /\ dl' = DownloadRead(dl, size)
         /\ IF dl'.cancelled
            THEN /\ resp' = onError(HTTPException(413, "Remote file exceeds 50MB limit."))
                 /\ req' = [req EXCEPT !.pc = "done"]
            ELSE /\ resp' = resp
                 /\ req' = req
    /\ UNCHANGED <<proc, calls, batch, texts, pdfs, tmp>>

\* reader.read() reports done: the writer is ended, downloadUrlToTemp
\* returns, and the handler dispatches on what was downloaded
UrlReadDone ==
    /\ proc.phase = "serving"
    /\ req.pc = "download"
    /\ \E env \in Envs :
         LET d == [dl EXCEPT !.reads = @ + 1, !.ended = TRUE,
                             !.route = SelectPipeline(DispatchExt(dl), dl.contentType)]
             r == UrlDispatch(d, env)
         IN  /\ dl' = d
             /\ resp' = Respond(r)
             /\ calls' = r.calls
    /\ req' = [req EXCEPT !.pc = "done"]
    /\ UNCHANGED <<proc, batch, texts, pdfs, tmp>>

\* the response has been sent: the request's state is gone
Close ==
    /\ req.pc = "done"
    /\ req' = IdleReq
    /\ resp' = NoResp
    /\ calls' = <<>>
    /\ dl' = NoDownload
    /\ batch' = NoBatch
    /\ UNCHANGED <<proc, texts, pdfs, tmp>>

Next ==
    \/ Startup
    \/ GetHealth
    \/ PostConvertTxt
    \/ PostConvertRtf
    \/ PostConvertDocx
    \/ PostConvertHtml
    \/ PostConvertZip
    \/ ZipEntry
    \/ PostConvertUrl
    \/ UrlReadChunk
    \/ UrlReadDone
    \/ Close

Spec == Init /\ [][Next]_vars

(***************************************************************************)
(* The text adapter applied to two inputs.                                 *)
(***************************************************************************)
InitTxt ==
    /\ proc = BootProc
    /\ req = IdleReq
    /\ resp = NoResp
    /\ calls = <<>>
    /\ dl = NoDownload
    /\ batch = NoBatch
    /\ texts \in Texts \X Texts
    /\ pdfs = <<NoLayout, NoLayout>>
    /\ tmp = NoTmp

\* txtToPdf_toPath lays out one of the inputs
LayoutText ==
    /\ \E k \in 1..2 :
         /\ ~pdfs[k].done
         /\ pdfs' = [pdfs EXCEPT ![k] = txtLayout(texts[k])]
    /\ UNCHANGED <<proc, req, resp, calls, dl, batch, texts, tmp>>

NextTxt == LayoutText

SpecTxt == InitTxt /\ [][NextTxt]_vars

(***************************************************************************)
(* Requests handled concurrently and their temp files.  The handlers are   *)
(* async functions on one thread: a step runs from one await to the next,  *)
(* and the steps of different requests interleave.                         *)
(***************************************************************************)
InitTmp ==
    /\ proc = BootProc
    /\ req = IdleReq
    /\ resp = NoResp
    /\ calls = <<>>
    /\ dl = NoDownload
    /\ batch = NoBatch
    /\ texts = << <<>>, <<>> >>
    /\ pdfs = <<NoLayout, NoLayout>>
    /\ tmp = NoTmp

\* `${basename(filename, ".txt")}.pdf`
TxtPdfName(name) ==
    IF endsWith(name, ".txt")
    THEN [name EXCEPT !.dir = "", !.exts = SubSeq(@, 1, Len(@) - 1) \o <<".pdf">>]
    ELSE [name EXCEPT !.dir = "", !.exts = Append(@, ".pdf")]

\* the millisecond clock advances
TmpTick ==
    /\ tmp.now < MaxClock
    /\ tmp' = [tmp EXCEPT !.now = @ + 1]
    /\ UNCHANGED <<proc, req, resp, calls, dl, batch, texts, pdfs>>

\* POST /api/convert/html with an 'html' field, up to the first await of
\* htmlToPdfWithWK_toPath: both paths are generated, the HTML is written
TmpHtmlWrite ==
    /\ \E c \in Clients, r1 \in Randoms, r2 \in Randoms, t2 \in Later(tmp.now) :
         LET htmlPath == TmpPath(tmp.now, r1, Name("", "html-upload", <<".html">>))
             pdfPath == TmpPath(t2, r2, Name("", "html-upload", <<".pdf">>))
         IN  /\ tmp.jobs[c].pc = "idle"
             /\ tmp' = [tmp EXCEPT
                     !.now = t2,
                     !.files = BunWrite(@, htmlPath, c, "html"),
                     !.created = @ \cup {[path |-> htmlPath, by |-> c]},
                     !.jobs[c] = [IdleJob EXCEPT !.endpoint = "/api/convert/html",
                                                 !.pc = "wk",
                                                 !.made = <<htmlPath, pdfPath>>]]
    /\ UNCHANGED <<proc, req, resp, calls, dl, batch, texts, pdfs>>

\* the wkhtmltopdf run of htmlToPdfWithWK_toPath: it reads the file at
\* htmlPath and, when it succeeds, writes the file at pdfPath
TmpHtmlRender ==
    /\ \E c \in Clients, run \in ToolRuns :
         LET j == tmp.jobs[c]
             src == FileAt(tmp.files, j.made[1])
             r == htmlToPdfWithWK_toPath(src.by, run)
         IN  /\ j.pc = "wk"
             /\ tmp' = IF r.ok
                       THEN [tmp EXCEPT
                               !.files = BunWrite(@, j.made[2], c, "pdf"),
                               !.created = @ \cup {[path |-> j.made[2], by |-> c]},
                               !.jobs[c] = [j EXCEPT !.pc = "stream",
                                                     !.readBy = @ \cup {src.by}]]
                       ELSE [tmp EXCEPT
                               !.jobs[c] = [j EXCEPT !.pc = "done",
                                                     !.status = Respond(r).status,
                                                     !.readBy = @ \cup {src.by}]]
    /\ UNCHANGED <<proc, req, resp, calls, dl, batch, texts, pdfs>>

\* POST /api/convert/txt up to the write of the PDF: pdf-lib lays the text
\* out (or throws), the path is generated, the PDF is written
TmpTxtWrite ==
    /\ \E c \in Clients, r1 \in Randoms, env \in Envs :
         LET outPath == TmpPath(tmp.now, r1, TxtPdfName(Name("", "a", <<".txt">>)))
             r == txtToPdf_toPath(c, env)
         IN  /\ tmp.jobs[c].pc = "idle"
             /\ tmp' = IF r.ok
                       THEN [tmp EXCEPT
                               !.files = BunWrite(@, outPath, c, "pdf"),
                               !.created = @ \cup {[path |-> outPath, by |-> c]},
                               !.jobs[c] = [IdleJob EXCEPT !.endpoint = "/api/convert/txt",
                                                           !.pc = "stream",
                                                           !.made = <<outPath>>]]
                       ELSE [tmp EXCEPT
                               !.jobs[c] = [IdleJob EXCEPT !.endpoint = "/api/convert/txt",
                                                           !.pc = "done",
                                                           !.status = Respond(r).status]]
    /\ UNCHANGED <<proc, req, resp, calls, dl, batch, texts, pdfs>>

\* POST /convert/url for a remote PDF, up to the read loop of
\* downloadUrlToTemp: the name is resolved, the path generated, the writer
\* and the reader opened
TmpUrlStart ==
    /\ \E c \in Clients, r1 \in Randoms :
         LET d == DownloadStart(PdfUrl, PdfRemote)
             tmpPath == TmpPath(tmp.now, r1, d.filename)
         IN  /\ tmp.jobs[c].pc = "idle"
             /\ tmp' = [tmp EXCEPT
                     !.jobs[c] = [IdleJob EXCEPT !.endpoint = "/convert/url",
                                                 !.pc = "download",
                                                 !.made = <<tmpPath>>,
                                                 !.dl = d]]
    /\ UNCHANGED <<proc, req, resp, calls, dl, batch, texts, pdfs>>

\* reader.read() delivers a chunk: over the ceiling the download is
\* aborted and the request answered 413, else the chunk is written
TmpUrlChunk ==
    /\ \E c \in Clients, size \in ChunkSizes, creates \in BOOLEAN :
         LET j == tmp.jobs[c]
             d == DownloadRead(j.dl, size)
         IN  /\ j.pc = "download"
             /\ j.dl.reads < MaxChunks
             /\ tmp' = IF d.cancelled
                       THEN [tmp EXCEPT
                               !.files = AbortDownload(@, j.made[1], c, creates),
                               !.created = IF Exists(tmp.files, j.made[1]) \/ ~creates
                                           THEN @ ELSE @ \cup {[path |-> j.made[1], by |-> c]},
                               !.jobs[c] = [j EXCEPT !.pc = "done", !.dl = d,
                                                     !.status = 413]]
                       ELSE [tmp EXCEPT
                               !.files = WriterWrite(@, j.made[1], c, size),
                               !.created = @ \cup {[path |-> j.made[1], by |-> c]},
                               !.jobs[c] = [j EXCEPT !.dl = d]]
    /\ UNCHANGED <<proc, req, resp, calls, dl, batch, texts, pdfs>>

\* reader.read() reports done: the writer is ended, downloadUrlToTemp
\* returns, and the handler goes on to stream the PDF as it is
TmpUrlDone ==
    /\ \E c \in Clients, creates \in BOOLEAN :
         LET j == tmp.jobs[c]
         IN  /\ j.pc = "download"
             /\ tmp' = [tmp EXCEPT
                     !.files = WriterEnd(@, j.made[1], c, creates),
                     !.created = IF Exists(tmp.files, j.made[1]) \/ ~creates
                                 THEN @ ELSE @ \cup {[path |-> j.made[1], by |-> c]},
                     !.jobs[c] = [j EXCEPT !.pc = "stream",
                                           !.dl = [j.dl EXCEPT !.reads = @ + 1,
                                                               !.ended = TRUE,
                                                               !.route = "pdf"]]]
    /\ UNCHANGED <<proc, req, resp, calls, dl, batch, texts, pdfs>>

\* streamFile(path, ...): the response body is the file at the path the
\* adapter returned, as it is when it is read; without a file the read
\* fails
TmpStream ==
    /\ \E c \in Clients :
         LET j == tmp.jobs[c]
             path == j.made[Len(j.made)]
             f == FileAt(tmp.files, path)
         IN  /\ j.pc = "stream"
             /\ tmp' = IF Exists(tmp.files, path)
                       THEN [tmp EXCEPT
                               !.jobs[c] = [j EXCEPT !.pc = "done", !.status = 200,
                                                     !.body = f,
                                                     !.readBy = @ \cup {f.by}]]
                       ELSE [tmp EXCEPT
                               !.jobs[c] = [j EXCEPT !.pc = "done", !.status = 500]]
    /\ UNCHANGED <<proc, req, resp, calls, dl, batch, texts, pdfs>>

NextTmp ==
    \/ TmpTick
    \/ TmpHtmlWrite
    \/ TmpHtmlRender
    \/ TmpTxtWrite
    \/ TmpUrlStart
    \/ TmpUrlChunk
    \/ TmpUrlDone
    \/ TmpStream

SpecTmp == InitTmp /\ [][NextTmp]_vars

(***************************************************************************)
(* Properties.                                                             *)
(***************************************************************************)
UploadEndpoints == {"/api/convert/txt", "/api/convert/rtf", "/api/convert/docx",
                    "/api/convert/html", "/convert/zip"}

\* the request carries an uploaded file larger than the ceiling
OversizedUpload ==
    /\ req.endpoint \in UploadEndpoints
    /\ req.form.file.kind = "file"
    /\ req.form.file.size > MAX_FILE_BYTES

\* C1: on every upload endpoint, an uploaded file larger than 50 MiB is
\* answered with 413 and no converter adapter (pdf-lib layout, unrtf,
\* mammoth, wkhtmltopdf, unzip) is invoked for the request.
C1_OversizedUploadIs413 ==
    OversizedUpload => /\ req.pc = "done"
                       /\ resp.status = 413
                       /\ resp.body = <<>>
                       /\ calls = <<>>

\* an oversized .zip upload, which but for its size would be decoded
C1_Witness ==
    /\ OversizedUpload
    /\ req.endpoint = "/convert/zip"
    /\ TestExt(req.form.file.name, {".zip"})
    /\ resp.status = 413

RECURSIVE SumSizes(_)
SumSizes(blobs) == IF blobs = <<>> THEN 0 ELSE blobs[1].size + SumSizes(Tail(blobs))

\* C2: in downloadUrlToTemp, once the running byte count exceeds the
\* ceiling the reader is cancelled and the writer ended, the chunk that
\* crossed the ceiling is not written (what was written stays within the
\* ceiling and is one chunk short of what was read), no chunk is read after
\* it, the request ends with 413, and the handler neither streams nor
\* converts the temp file.
C2_SizeCapAbortsDownload ==
    dl.received > MAX_FILE_BYTES =>
        /\ dl.cancelled /\ dl.ended
        /\ SumSizes(dl.written) <= MAX_FILE_BYTES
        /\ SumSizes(dl.written) < dl.received
        /\ dl.reads = Len(dl.written) + 1
        /\ req.pc = "done"
        /\ resp.status = 413
        /\ resp.body = <<>>
        /\ dl.route = ""
        /\ calls = <<>>

\* the ceiling is crossed mid-stream, after a chunk was written
C2_Witness ==
    /\ dl.received > MAX_FILE_BYTES
    /\ Len(dl.written) >= 1
    /\ resp.status = 413

SupportedExts == {".txt", ".docx", ".rtf", ".html", ".htm"}
\* a path with its (last) extension replaced by .pdf
WithPdfExt(path) == [path EXCEPT !.exts = SubSeq(@, 1, Len(@) - 1) \o <<".pdf">>]
\* the positions of the input archive whose lowercased extension is supported
SupportedEntries ==
    {i \in 1..Len(batch.input) :
        toLowerCase(extname(batch.input[i].path)) \in SupportedExts}

\* C3: when POST /convert/zip succeeds, the output archive holds exactly one
\* entry per input entry with a supported extension, each at the input path
\* with that extension replaced by .pdf and converted from that entry, and
\* nothing else.
C3_ZipOneOutputPerSupportedEntry ==
    (req.endpoint = "/convert/zip" /\ req.pc = "done" /\ resp.status = 200) =>
        /\ Cardinality(batch.out) = Cardinality(SupportedEntries)
        /\ \A i \in SupportedEntries :
             \E e \in batch.out : /\ e.path = WithPdfExt(batch.input[i].path)
                                  /\ e.pdf.fmt = "pdf"
                                  /\ e.pdf.src = batch.input[i].data
        /\ \A e \in batch.out :
             \E i \in SupportedEntries : e.path = WithPdfExt(batch.input[i].path)

\* the download of a POST /convert/url request succeeded within the ceiling
Downloaded ==
    /\ req.endpoint = "/convert/url"
    /\ req.pc = "done"
    /\ dl.ended /\ ~dl.cancelled

\* C4: for POST /convert/url, when the fetched response's Content-Type is
\* application/pdf and the download succeeds within the ceiling, the
\* response is a 200 whose body is exactly the downloaded bytes, and no
\* converter adapter is invoked.
C4_PdfContentTypePassesThrough ==
    (Downloaded /\ req.remote.ct = "application/pdf") =>
        /\ resp.status = 200
        /\ resp.body = dl.written
        /\ SumSizes(resp.body) = dl.received
        /\ Len(resp.body) = dl.reads - 1
        /\ calls = <<>>

\* a PDF by Content-Type whose resolved name says .txt, some bytes long
C4_Witness ==
    /\ Downloaded
    /\ req.remote.ct = "application/pdf"
    /\ DispatchExt(dl) = ".txt"
    /\ Len(dl.written) >= 2
    /\ resp.status = 200

PipelineOfExt(ext) ==
    CASE ext = ".pdf" -> "pdf"
      [] ext = ".docx" -> "docx"
      [] ext = ".txt" -> "txt"
      [] ext \in {".html", ".htm"} -> "html"
      [] ext = ".rtf" -> "rtf"
      [] OTHER -> "none"

\* C6: in URL-driven conversion, whenever the resolved filename has a
\* recognised extension, the pipeline selected is the one of that
\* extension, whatever the response's Content-Type.
C6_ExtensionHasPriority ==
    (Downloaded /\ PipelineOfExt(DispatchExt(dl)) # "none") =>
        dl.route = PipelineOfExt(DispatchExt(dl))

\* C7: for POST /convert/url, when the fetched resource is a ZIP archive (by
\* .zip extension or by a zip Content-Type), the response is a ZIP stream,
\* not an error.
C7_UrlZipIsConverted ==
    (Downloaded /\ (DispatchExt(dl) = ".zip"
                    \/ guessExtFromContentType(req.remote.ct) = ".zip")) =>
        /\ resp.status = 200
        /\ resp.mime = "application/zip"

\* every single character of the text fits the line width
CharsFit(text) ==
    \A i \in 1..Len(text) : widthOfTextAtSize(<<text[i]>>, fontSize) <= maxWidth * 1000

\* C8: every line the wrap loop of txtToPdf_toPath produces is at most
\* maxWidth wide (given that each single character fits), also when a word
\* wider than maxWidth had to be split.
C8_LinesFitWidth ==
    \A k \in 1..2 :
        (pdfs[k].done /\ CharsFit(texts[k])) =>
            \A j \in 1..Len(pdfs[k].lines) :
                widthOfTextAtSize(pdfs[k].lines[j], fontSize) <= maxWidth * 1000

\* a text with a word wider than the line, laid out as several lines
C8_Witness ==
    /\ pdfs[1].done
    /\ CharsFit(texts[1])
    /\ \E j \in 1..Len(SplitWords(texts[1])) :
           widthOfTextAtSize(SplitWords(texts[1])[j], fontSize) > maxWidth * 1000
    /\ Len(pdfs[1].lines) >= 2

\* C9 as stated: of two inputs, the longer one has at least as many pages.
C9_PagesMonotoneInLength ==
    (pdfs[1].done /\ pdfs[2].done /\ Len(texts[1]) < Len(texts[2])) =>
        pdfs[1].pages <= pdfs[2].pages

IsPrefix(s, t) == Len(s) <= Len(t) /\ SubSeq(t, 1, Len(s)) = s

\* C9 amended: when one input is a prefix of the other (the longer input
\* extends the shorter), the longer one has at least as many pages.
C9_PagesMonotoneInExtension ==
    (pdfs[1].done /\ pdfs[2].done /\ IsPrefix(texts[1], texts[2])) =>
        pdfs[1].pages <= pdfs[2].pages

\* an input on one page and an extension of it that needs a second page
C9_Witness ==
    /\ pdfs[1].done /\ pdfs[2].done
    /\ IsPrefix(texts[1], texts[2])
    /\ pdfs[1].pages = 1
    /\ pdfs[2].pages = 2

\* a --version spawn that was made, did not throw and exited with code 0
Invocable(run) == run.ran /\ ~run.threw /\ run.exitCode = 0

\* C10: the app and its routes exist, and a request is handled, only if the
\* startup check found both wkhtmltopdf and unrtf invocable; if a check
\* failed the process has logged the failure and exited with a non-zero
\* code, without the app.
C10_FailFastStartup ==
    /\ (proc.app \/ req.pc # "idle" \/ resp # NoResp) =>
           Invocable(proc.wkRun) /\ Invocable(proc.unRun)
    /\ ((proc.wkRun.ran /\ ~Invocable(proc.wkRun))
           \/ (proc.unRun.ran /\ ~Invocable(proc.unRun))) =>
           /\ proc.phase = "exited"
           /\ proc.exitCode # 0
           /\ proc.logged = "dependency check failed"
           /\ ~proc.app
           /\ req.pc = "idle"

\* wkhtmltopdf is there, unrtf exits non-zero: the process has exited
C10_Witness ==
    /\ Invocable(proc.wkRun)
    /\ proc.unRun.ran /\ ~proc.unRun.threw /\ proc.unRun.exitCode = 1
    /\ proc.phase = "exited"

\* the extensions an upload endpoint requires of the file's name
RequiredExts(endpoint) ==
    CASE endpoint = "/api/convert/txt"  -> {".txt"}
      [] endpoint = "/api/convert/rtf"  -> {".rtf"}
      [] endpoint = "/api/convert/docx" -> {".docx"}
      [] endpoint = "/api/convert/html" -> {".html", ".htm", ".xhtml"}
      [] endpoint = "/convert/zip"      -> {".zip"}
      [] OTHER -> {}

\* the request fails input validation: no 'file' file field on a file
\* endpoint, a file within the ceiling whose name lacks the required
\* extension, neither a file nor an 'html' text field on the html endpoint,
\* no url or a url that is not http(s) on the url endpoint
FailsValidation ==
    \/ /\ req.endpoint \in UploadEndpoints \ {"/api/convert/html"}
       /\ req.form.file.kind # "file"
    \/ /\ req.endpoint \in UploadEndpoints
       /\ req.form.file.kind = "file"
       /\ req.form.file.size <= MAX_FILE_BYTES
       /\ ~TestExt(req.form.file.name, RequiredExts(req.endpoint))
    \/ /\ req.endpoint = "/api/convert/html"
       /\ req.form.file.kind # "file"
       /\ req.form.html.kind # "string"
    \/ /\ req.endpoint = "/convert/url"
       /\ (~req.urlreq.url.present \/ ~IsHttpUrl(req.urlreq.url))

\* C11: a request that fails input validation is answered with status 400
\* and the JSON envelope {ok: false, error: message}, no converter adapter
\* is invoked for it and no fetch is issued for it.
C11_ValidationFailureIs400 ==
    FailsValidation =>
        /\ req.pc = "done"
        /\ resp.status = 400
        /\ ~resp.ok
        /\ resp.mime = "application/json"
        /\ resp.error.msg # ""
        /\ calls = <<>>
        /\ ~dl.fetched

\* the position in the input archive of the entry the loop stands at
AtEntry == Len(batch.input) - Len(batch.todo) + 1

\* an adapter invoked for an entry of the batch threw
EntryFailed(i) ==
    /\ req.endpoint = "/convert/zip"
    /\ i \in 1..Len(calls)
    /\ calls[i].tool \notin {"unzip", "zip"}
    /\ calls[i].code # 0

\* C12: in POST /convert/zip, when the conversion of one entry throws, no
\* adapter is invoked after the one that threw and no later entry has a PDF
\* in the output map, the output archive is neither written nor streamed,
\* and the request ends with an error response, however many earlier
\* entries were converted.
C12_ZipEntryFailureIsFatal ==
    \A i \in 1..Len(calls) :
        EntryFailed(i) =>
            /\ i = Len(calls)
            /\ \A j \in 1..Len(calls) : calls[j].tool # "zip"
            /\ batch.todo # <<>>
            /\ \A j \in (AtEntry + 1)..Len(batch.input) :
                   \A e \in batch.out : e.pdf.src # batch.input[j].data
            /\ req.pc = "done"
            /\ resp.status >= 400
            /\ ~resp.ok
            /\ resp.mime # "application/zip"
            /\ resp.body = <<>>

\* the second entry fails after the first was converted, with a third,
\* supported entry still to come
C12_Witness ==
    /\ EntryFailed(Len(calls))
    /\ Cardinality(batch.out) = 1
    /\ Len(batch.todo) = 2
    /\ toLowerCase(extname(batch.todo[2].path)) \in SupportedExts
    /\ resp.status = 500

\* the download of request c was aborted over the ceiling after part of
\* the body had been written to its temp file
AbortedMidStream(c) ==
    /\ tmp.jobs[c].endpoint = "/convert/url"
    /\ tmp.jobs[c].dl.cancelled
    /\ tmp.jobs[c].dl.written # <<>>

\* no other request generated the path that request c downloads to
PathIsOwn(c) ==
    \A o \in Clients \ {c} :
        \A i \in 1..Len(tmp.jobs[o].made) : tmp.jobs[o].made[i] # tmp.jobs[c].made[1]

\* C13 as stated: when downloadUrlToTemp aborts over the ceiling
\* mid-stream, the partially written temp file no longer exists in the
\* scratch directory.
C13_PartialFileDiscarded ==
    \A c \in Clients :
        AbortedMidStream(c) => ~Exists(tmp.files, tmp.jobs[c].made[1])

\* C13 amended: when downloadUrlToTemp aborts over the ceiling mid-stream,
\* the partial output is abandoned, not removed: the partially written temp
\* file stays in the scratch directory (holding the chunks written before
\* the one that crossed the ceiling, if no other request wrote to its
\* path), and the request, answered 413, never reads or streams it.
C13_PartialFileAbandoned ==
    \A c \in Clients :
        AbortedMidStream(c) =>
            /\ Exists(tmp.files, tmp.jobs[c].made[1])
            /\ PathIsOwn(c) =>
                   /\ FileAt(tmp.files, tmp.jobs[c].made[1]).by = c
                   /\ FileAt(tmp.files, tmp.jobs[c].made[1]).chunks = tmp.jobs[c].dl.written
            /\ tmp.jobs[c].pc = "done"
            /\ tmp.jobs[c].status = 413
            /\ tmp.jobs[c].body = NoFile
            /\ tmp.jobs[c].readBy = {}

\* a download aborted after two chunks were written, and the other request
\* has come and gone since
C13_Witness ==
    /\ AbortedMidStream("A")
    /\ Len(tmp.jobs["A"].dl.written) = 2
    /\ Exists(tmp.files, tmp.jobs["A"].made[1])
    /\ tmp.jobs["B"].pc = "done"
    /\ tmp.jobs["B"].status = 200

\* C14: across the interleavings of concurrently handled requests, no two
\* temp artifacts created share a path, and no request reads or streams a
\* file written by another request.
C14_NoSharedTempPath ==
    /\ \A x, y \in tmp.created : x # y => x.path # y.path
    /\ \A c \in Clients : tmp.jobs[c].readBy \subseteq {c}

\* the lines one after the other
RECURSIVE Flatten(_)
Flatten(lines) == IF lines = <<>> THEN <<>> ELSE lines[1] \o Flatten(Tail(lines))

\* a text without its whitespace
NonSpace(text) == SelectSeq(text, LAMBDA ch : ~IsSpace(ch))

\* C15: the wrap loop of txtToPdf_toPath loses and duplicates nothing: the
\* produced lines, one after the other and without whitespace, are exactly
\* the input's non-whitespace characters in their order, also for a word
\* that was split across lines.
C15_WrapKeepsCharacters ==
    \A k \in 1..2 :
        pdfs[k].done => NonSpace(Flatten(pdfs[k].lines)) = NonSpace(texts[k])

\* a text of two words, the second wider than the line and split across
\* lines after the first
C15_Witness ==
    /\ pdfs[2].done
    /\ Len(SplitWords(texts[2])) = 2
    /\ SplitWords(texts[2])[1] # <<>>
    /\ ~Fits(SplitWords(texts[2])[2])
    /\ Len(pdfs[2].lines) = 3
    /\ NonSpace(Flatten(pdfs[2].lines)) = NonSpace(texts[2])

====
